---- MODULE Spec2Model ----
(***************************************************************************)
(* Definition-build time model of blueprint-cdk-front-web: the CDK         *)
(* pipeline stack (PipelineStack), the per-stage hosting stage             *)
(* (InfraStage) and the hosting stack (WebStack).                          *)
(*                                                                         *)
(* The repository is present at two revisions, told apart by `rev`:        *)
(*   rev 1: lib/pipeline-stack.ts, lib/infra-stage.ts (second class),      *)
(*          the WebStack built on CloudFrontWebDistribution                *)
(*   rev 2: the PipelineStack with webOutputDir, the InfraStage that       *)
(*          declares webUrlOutput (bin/local.ts), the WebStack built on    *)
(*          Distribution + BucketDeployment                                *)
(***************************************************************************)
EXTENDS Integers, Sequences, FiniteSets, TLC

\* Longest stage list of props.stages that is explored.
MaxStages == 2

Revs == {1, 2}

-----------------------------------------------------------------------------
(* JavaScript values *)

\* The JavaScript value `undefined` of an optional string property.
Undefined == "<undefined>"

\* JavaScript truthiness of an optional string: `if (props.x)`.
Truthy(v) == v # Undefined /\ v # ""

\* String.prototype.toLowerCase on the identifiers that occur in stack names.
ToLowerCase(s) ==
  CASE s = "Testing" -> "testing"
    [] s = "Production" -> "production"
    [] s = "BlueprintCdkFrontWeb-Dev" -> "blueprintcdkfrontweb-dev"
    [] s = "WebStack" -> "webstack"
    [] s = "Infra" -> "infra"
    [] OTHER -> s

RECURSIVE SeqToSet(_)
SeqToSet(s) == IF s = <<>> THEN {} ELSE {Head(s)} \cup SeqToSet(Tail(s))

-----------------------------------------------------------------------------
(* CfnOutput *)

\* A property that was declared but never assigned reads as undefined.
UndefinedOutput ==
  [defined |-> FALSE, stack |-> Undefined, id |-> Undefined,
   value |-> Undefined, exportName |-> Undefined]

\* new CfnOutput(stack, id, {value, exportName})
CfnOutput(stackName, id, value, exportName) ==
  [defined |-> TRUE, stack |-> stackName, id |-> id,
   value |-> value, exportName |-> exportName]

\* A deploy-time attribute of a resource of a stack (a CDK token).
Token(stackName, resource, attr) ==
  "${Token[" \o stackName \o "." \o resource \o "." \o attr \o "]}"

-----------------------------------------------------------------------------
(* WebStack *)

\* The suffix of the WebStack construct id given by InfraStage.
WebStackSuffix(rev) == IF rev = 1 THEN "Infra" ELSE "WebStack"

\* id of the WebStack: `${this.stageName}-Infra` / `${this.stageName}-WebStack`
WebStackId(stageName, rev) == stageName \o "-" \o WebStackSuffix(rev)

\* Name of a stack that lives in a stage: stage name, then the stack's id.
StackName(stageName, rev) == stageName \o "-" \o WebStackId(stageName, rev)

\* this.stackName.toLowerCase().concat('-web')
BucketName(stageName, rev) ==
  ToLowerCase(stageName) \o "-" \o ToLowerCase(stageName) \o "-"
    \o ToLowerCase(WebStackSuffix(rev)) \o "-web"

\* Variant: the hosted zone branch is tested before the imported one.
ResolveCertificate_ZoneFirst(props) ==
  IF Truthy(props.hostedZoneId) /\ Truthy(props.domainName)
  THEN [threw |-> FALSE,
        constructs |-> <<"HostedZone", "Certificate">>,
        certificate |-> "${Token[Certificate.Arn]}",
        hostedZone |-> props.hostedZoneId,
        domainNames |-> <<props.domainName>>]
  ELSE IF Truthy(props.certificateArn) /\ Truthy(props.domainName)
  THEN [threw |-> FALSE,
        constructs |-> <<"CertificateImported">>,
        certificate |-> props.certificateArn,
        hostedZone |-> Undefined,
        domainNames |-> <<props.domainName>>]
  ELSE [threw |-> FALSE,
        constructs |-> <<>>,
        certificate |-> Undefined,
        hostedZone |-> Undefined,
        domainNames |-> <<>>]

\* Variant: the domain name is pushed whenever it is set, outside the branches.
ResolveCertificate_AlwaysDomain(props) ==
  LET names == IF Truthy(props.domainName) THEN <<props.domainName>> ELSE <<>>
  IN  IF Truthy(props.certificateArn) /\ Truthy(props.domainName)
      THEN [threw |-> FALSE,
            constructs |-> <<"CertificateImported">>,
            certificate |-> props.certificateArn,
            hostedZone |-> Undefined,
            domainNames |-> names]
      ELSE IF Truthy(props.hostedZoneId) /\ Truthy(props.domainName)
      THEN [threw |-> FALSE,
            constructs |-> <<"HostedZone", "Certificate">>,
            certificate |-> "${Token[Certificate.Arn]}",
            hostedZone |-> props.hostedZoneId,
            domainNames |-> names]
      ELSE [threw |-> FALSE,
            constructs |-> <<>>,
            certificate |-> Undefined,
            hostedZone |-> Undefined,
            domainNames |-> names]

\* Variant: incomplete certificate input is rejected with an exception.
ResolveCertificate_Strict(props) ==
  IF Truthy(props.certificateArn) /\ Truthy(props.domainName)
  THEN [threw |-> FALSE,
        constructs |-> <<"CertificateImported">>,
        certificate |-> props.certificateArn,
        hostedZone |-> Undefined,
        domainNames |-> <<props.domainName>>]
  ELSE IF Truthy(props.hostedZoneId) /\ Truthy(props.domainName)
  THEN [threw |-> FALSE,
        constructs |-> <<"HostedZone", "Certificate">>,
        certificate |-> "${Token[Certificate.Arn]}",
        hostedZone |-> props.hostedZoneId,
        domainNames |-> <<props.domainName>>]
  ELSE [threw |-> Truthy(props.certificateArn) \/ Truthy(props.hostedZoneId)
                    \/ Truthy(props.domainName),
        constructs |-> <<>>,
        certificate |-> Undefined,
        hostedZone |-> Undefined,
        domainNames |-> <<>>]

\* The certificate / hosted zone / domain names block of the constructor.
\* `threw` records an exception raised by the block; the code raises none.
ResolveCertificate(props) ==
  IF Truthy(props.certificateArn) /\ Truthy(props.domainName)
  THEN [threw |-> FALSE,
        constructs |-> <<"CertificateImported">>,
        certificate |-> props.certificateArn,
        hostedZone |-> Undefined,
        domainNames |-> <<props.domainName>>]
  ELSE IF Truthy(props.hostedZoneId) /\ Truthy(props.domainName)
  THEN [threw |-> FALSE,
        constructs |-> <<"HostedZone", "Certificate">>,
        certificate |-> "${Token[Certificate.Arn]}",
        hostedZone |-> props.hostedZoneId,
        domainNames |-> <<props.domainName>>]
  ELSE [threw |-> FALSE,
        constructs |-> <<>>,
        certificate |-> Undefined,
        hostedZone |-> Undefined,
        domainNames |-> <<>>]

\* Variant: the alias record is decided by props.hostedZoneId.
AliasRecord_FromProps(cert, props) ==
  IF Truthy(props.hostedZoneId) /\ Truthy(props.domainName)
  THEN <<"APIAliasRecord">> ELSE <<>>

\* `if (hostedZone && props.domainName) new ARecord(...)`
AliasRecord(cert, props) ==
  IF Truthy(cert.hostedZone) /\ Truthy(props.domainName)
  THEN <<"APIAliasRecord">> ELSE <<>>

\* Constructs created before the certificate block.
WebStackHead(rev) ==
  IF rev = 1 THEN <<"WebAccessLogsBucket", "OAI", "WebBucket">>
  ELSE <<"cloudfront-OAI", "WebAccessLogsBucket", "WebBucket">>

\* Principals granted on the website bucket before the certificate block.
BucketGrants(props, rev) ==
  IF rev = 1
  THEN <<[principal |-> "OAI", access |-> "read"]>> \o
       (IF Truthy(props.buildAccount)
        THEN <<[principal |-> props.buildAccount, access |-> "readwrite"]>>
        ELSE <<>>)
  ELSE <<[principal |-> "cloudfront-OAI", access |-> "read"]>>

\* Constructs created after the alias record block, in order.
WebStackTail(rev) ==
  IF rev = 1
  THEN <<"ExportDistributionId", "ExportDistributionUrl", "ExportBucketName",
         "ExportBucketArn", "CanonicalId", "WebDashboard">>
  ELSE <<"DeployWebsite", "DistributionId", "DistributionUrl",
         "WebBucketName", "WebBucketArn", "WebDashboard">>

\* The MathExpression of the error-rate widget.
ErrorRateExpression ==
  [expression |-> "(m4+m5+m6)/m7*100",
   label |-> "5xxErrorByLambdaEdge",
   usingMetrics |->
     [m4 |-> "LambdaExecutionError", m5 |-> "LambdaValidationError",
      m6 |-> "LambdaLimitExceededErrors", m7 |-> "Requests"]]

\* new WebStack(stage, id, props): the stack as it stands when the constructor
\* returns, or as it stood when the constructor threw (completed = FALSE).
WebStack(stageName, props, rev) ==
  LET sn == StackName(stageName, rev)
      cert == ResolveCertificate(props)
  IN  IF cert.threw
      THEN [stackName |-> sn,
            completed |-> FALSE,
            constructs |-> WebStackHead(rev),
            bucketGrants |-> BucketGrants(props, rev),
            certificate |-> Undefined,
            hostedZone |-> Undefined,
            domainNames |-> <<>>,
            distributionIdOutput |-> UndefinedOutput,
            distributionUrlOutput |-> UndefinedOutput,
            bucketNameOutput |-> UndefinedOutput,
            bucketArnOutput |-> UndefinedOutput,
            canonicalIdOutput |-> UndefinedOutput]
      ELSE [stackName |-> sn,
            completed |-> TRUE,
            constructs |-> WebStackHead(rev) \o cert.constructs
                             \o <<"WebDistribution">>
                             \o AliasRecord(cert, props) \o WebStackTail(rev),
            bucketGrants |-> BucketGrants(props, rev),
            certificate |-> cert.certificate,
            hostedZone |-> cert.hostedZone,
            domainNames |-> cert.domainNames,
            distributionIdOutput |->
              CfnOutput(sn, IF rev = 1 THEN "ExportDistributionId" ELSE "DistributionId",
                        Token(sn, "WebDistribution", "Ref"),
                        IF rev = 1 THEN "WebDistributionId" ELSE Undefined),
            distributionUrlOutput |->
              CfnOutput(sn, IF rev = 1 THEN "ExportDistributionUrl" ELSE "DistributionUrl",
                        Token(sn, "WebDistribution", "DomainName"), Undefined),
            bucketNameOutput |->
              CfnOutput(sn, IF rev = 1 THEN "ExportBucketName" ELSE "WebBucketName",
                        BucketName(stageName, rev),
                        IF rev = 1 THEN "WebBucketName" ELSE Undefined),
            bucketArnOutput |->
              CfnOutput(sn, IF rev = 1 THEN "ExportBucketArn" ELSE "WebBucketArn",
                        Token(sn, "WebBucket", "Arn"), Undefined),
            canonicalIdOutput |->
              IF rev = 1
              THEN CfnOutput(sn, "CanonicalId",
                             Token(sn, "OAI", "S3CanonicalUserId"), Undefined)
              ELSE UndefinedOutput]

\* The tagged certificate selection of a constructed WebStack.
CertificateSelection(ws) ==
  IF "CertificateImported" \in SeqToSet(ws.constructs) THEN "imported"
  ELSE IF "Certificate" \in SeqToSet(ws.constructs) THEN "validated-from-zone"
  ELSE "none"

-----------------------------------------------------------------------------
(* InfraStage *)

\* new InfraStage(scope, id, props)
InfraStage(id, props, rev) ==
  LET webStack == WebStack(id, props, rev)
  IN  [stageName |-> id,
       webStack |-> webStack,
       distributionIdOutput |-> webStack.distributionIdOutput,
       bucketNameOutput |-> webStack.bucketNameOutput,
       bucketArnOutput |-> webStack.bucketArnOutput,
       canonicalIdOutput |-> webStack.canonicalIdOutput,
       webUrlOutput |-> UndefinedOutput]

-----------------------------------------------------------------------------
(* PipelineStack: values *)

\* this.account of a stack without an account in its env.
ThisAccount == "${Token[AWS.AccountId]}"

\* new PolicyStatement({resources, actions})
PolicyStatement(resources, actions) ==
  [resources |-> resources, actions |-> actions]

\* new ShellStep('Synth', {...})
SynthStep(rev) ==
  [id |-> "Synth",
   installCommands |-> <<"make install">>,
   commands |->
     IF rev = 1
     THEN <<"make build", "make lint", "make build-website",
            "CI=true make test", "make synth">>
     ELSE <<"make lint", "make build", "CI=true make test", "make synth">>,
   primaryOutputDirectory |-> "packages/infra/cdk.out",
   additionalOutputs |-> {}]

\* Variant: the pipeline is created with a default stage deployment.
CodePipeline_DefaultStage(selfMutating, synth) ==
  [selfMutation |-> selfMutating, crossAccountKeys |-> TRUE,
   synth |-> synth.id,
   stages |-> <<[stageName |-> "Default", stack |-> "Default", post |-> <<>>]>>]

\* new CodePipeline(this, 'pipeline', {selfMutation, crossAccountKeys, synth})
CodePipeline(selfMutating, synth) ==
  [selfMutation |-> selfMutating, crossAccountKeys |-> TRUE,
   synth |-> synth.id, stages |-> <<>>]

\* The directory handed to synthStep.addOutputDirectory.
OutputDirectory(props, rev) == IF rev = 1 THEN "./" ELSE props.webOutputDir

\* synthStep.addOutputDirectory(dir): the file set of dir is created on first
\* use and found again afterwards.
AddOutputDirectory(step, dir) ==
  [step EXCEPT !.additionalOutputs = @ \cup {dir}]

\* { buildAccount: this.account, ...stage } as read by InfraStage and WebStack.
InfraStageProps(stage) ==
  [buildAccount |-> ThisAccount,
   domainName |-> stage.domainName,
   hostedZoneId |-> stage.hostedZoneId,
   certificateArn |-> stage.certificateArn]

\* Variant: the first InfraStage is used for every stage.
CurrentInfra_First(stages, k) == stages[1]

\* The `infra` constant of the loop body for the i-th stage.
CurrentInfra(stages, k) == stages[k]

\* Variant: the S3 statement is granted on every bucket.
WebSync_AnyBucket(infra, input, rev) ==
  [id |-> "Web Sync",
   input |-> input,
   envFromCfnOutputs |->
     <<[name |-> "WEB_BUCKET_NAME", output |-> infra.bucketNameOutput],
       [name |-> "DISTRIBUTION_ID", output |-> infra.distributionIdOutput]>>,
   commands |->
     IF rev = 1
     THEN <<"make generate-config", "make sync-website",
            "make invalidate-distribution">>
     ELSE <<"make configure-ui", "make invalidate-distribution">>,
   rolePolicyStatements |->
     <<PolicyStatement(
         <<"arn:aws:s3:::*", "arn:aws:s3:::*/*">>,
         <<"s3:List*", "s3:Abort*", "s3:GetObject*", "s3:PutObject*",
           "s3:DeleteObject*">>),
       PolicyStatement(<<"*">>, <<"cloudformation:ListExports">>)>>]

\* new CodeBuildStep('Web Sync', {...})
WebSync(infra, input, rev) ==
  [id |-> "Web Sync",
   input |-> input,
   envFromCfnOutputs |->
     <<[name |-> "WEB_BUCKET_NAME", output |-> infra.bucketNameOutput],
       [name |-> "DISTRIBUTION_ID", output |-> infra.distributionIdOutput]>>,
   commands |->
     IF rev = 1
     THEN <<"make generate-config", "make sync-website",
            "make invalidate-distribution">>
     ELSE <<"make configure-ui", "make invalidate-distribution">>,
   rolePolicyStatements |->
     <<PolicyStatement(
         <<infra.bucketArnOutput.value, infra.bucketArnOutput.value \o "/*">>,
         <<"s3:List*", "s3:Abort*", "s3:GetObject*", "s3:PutObject*",
           "s3:DeleteObject*">>),
       PolicyStatement(<<"*">>, <<"cloudformation:ListExports">>)>>]

\* Variant: a testing role alone turns the testing block on.
HasTesting_OrRole(stage) == stage.testing \/ Truthy(stage.testingRoleArn)

\* `if (stage.testing)`
HasTesting(stage) == stage.testing

\* Variant: the role is tested against undefined only.
TestingPolicies_DefinedOnly(stage) ==
  IF stage.testingRoleArn # Undefined
  THEN <<PolicyStatement(<<stage.testingRoleArn>>, <<"sts:assumeRole">>)>>
  ELSE <<>>

\* Variant: the statement allows every role to be assumed.
TestingPolicies_AnyRole(stage) ==
  IF Truthy(stage.testingRoleArn)
  THEN <<PolicyStatement(<<"*">>, <<"sts:assumeRole">>)>>
  ELSE <<>>

\* The `policies` array of the testing block.
TestingPolicies(stage) ==
  IF Truthy(stage.testingRoleArn)
  THEN <<PolicyStatement(<<stage.testingRoleArn>>, <<"sts:assumeRole">>)>>
  ELSE <<>>

\* Variant: the policies array is not handed to the step.
FunctionalTesting_NoPolicies(infra, stage, input, rev) ==
  [id |-> "Functional Testing",
   input |-> input,
   envFromCfnOutputs |->
     IF rev = 1 THEN <<>>
     ELSE <<[name |-> "WEB_URL", output |-> infra.webUrlOutput]>>,
   commands |->
     IF rev = 1 THEN <<"make test-functional">> ELSE <<"make test-ui">>,
   rolePolicyStatements |-> <<>>]

\* new CodeBuildStep('Functional Testing', {...})
FunctionalTesting(infra, stage, input, rev) ==
  [id |-> "Functional Testing",
   input |-> input,
   envFromCfnOutputs |->
     IF rev = 1 THEN <<>>
     ELSE <<[name |-> "WEB_URL", output |-> infra.webUrlOutput]>>,
   commands |->
     IF rev = 1 THEN <<"make test-functional">> ELSE <<"make test-ui">>,
   rolePolicyStatements |-> TestingPolicies(stage)]

\* Variant: a stage deployment is added at the front.
AddStageTo_Front(p, infra, post) ==
  [p EXCEPT !.stages =
     <<[stageName |-> infra.stageName,
        stack |-> infra.webStack.stackName,
        post |-> post]>> \o @]

\* pipeline.addStage(infra, {post}): a stage deployment is added at the end.
AddStageTo(p, infra, post) ==
  [p EXCEPT !.stages =
     Append(@, [stageName |-> infra.stageName,
                stack |-> infra.webStack.stackName,
                post |-> post])]

\* Variant: the post array is shared by all stage deployments.
AddPostTo_Shared(p, k, step) ==
  [p EXCEPT !.stages = [n \in 1..Len(@) |-> [@[n] EXCEPT !.post = Append(@, step)]]]

\* webStage.addPost(step) on the k-th stage deployment.
AddPostTo(p, k, step) ==
  [p EXCEPT !.stages[k].post = Append(@, step)]

-----------------------------------------------------------------------------
(* Inputs *)

StageNames == {"Testing", "testing", "Production"}

\* (testing, testingRoleArn) of a stage record.
TestingConfigs ==
  {<<FALSE, Undefined>>, <<FALSE, "role-x">>,
   <<TRUE, Undefined>>, <<TRUE, "">>, <<TRUE, "role-x">>, <<TRUE, "role-y">>}

\* (domainName, hostedZoneId, certificateArn) of a stage record of a pipeline.
HostingConfigs ==
  {<<Undefined, Undefined, Undefined>>,
   <<"example.com", "Z123", "arn:cert">>}

OptionalString(v) == {Undefined, "", v}

StageEnvironments ==
  {[name |-> n, testing |-> t[1], testingRoleArn |-> t[2],
    domainName |-> h[1], hostedZoneId |-> h[2], certificateArn |-> h[3]] :
      n \in StageNames, t \in TestingConfigs, h \in HostingConfigs}

\* Stage lists: at most MaxStages records, with unique names.
StageLists ==
  UNION {{s \in [1..n -> StageEnvironments] :
            \A a, b \in 1..n : a # b => s[a].name # s[b].name} :
         n \in 0..MaxStages}

-----------------------------------------------------------------------------
(* State *)

VARIABLES
  rev,        \* revision of the repository
  props,      \* props of the PipelineStack / config of the local entry point
  pc,         \* position in the entry point
  i,          \* index of the stage of the running loop iteration
  synthStep,  \* the Synth ShellStep
  pipeline,   \* the CodePipeline and its stage deployments
  infras,     \* the InfraStage instances, in order of instantiation
  run,        \* a run of `make pre-commit` or of the deployed pipeline
  sample      \* one period of the metrics of the error-rate expression

vars == <<rev, props, pc, i, synthStep, pipeline, infras, run, sample>>

\* No command has been run.
NoRun ==
  [entry |-> "none", status |-> "idle", stack |-> <<>>, log |-> <<>>,
   stage |-> 0, deployed |-> FALSE, ran |-> {}, postFailed |-> FALSE]

\* No period has been evaluated.
NoSample ==
  [LambdaExecutionError |-> 0, LambdaValidationError |-> 0,
   LambdaLimitExceededErrors |-> 0, Requests |-> 0,
   evaluated |-> FALSE, value |-> <<0, 1>>]

NoStep == [id |-> Undefined, installCommands |-> <<>>, commands |-> <<>>,
           primaryOutputDirectory |-> Undefined, additionalOutputs |-> {}]

NoPipeline == [selfMutation |-> FALSE, crossAccountKeys |-> FALSE,
               synth |-> Undefined, stages |-> <<>>]

\* bin/infra.ts: new PipelineStack(app, PIPELINE_STACK, {...config, ...})
Init ==
  /\ rev \in Revs
  /\ props \in {[selfMutating |-> TRUE, webOutputDir |-> "packages/website/build",
                 stages |-> s] : s \in StageLists}
  /\ pc = "start"
  /\ i = 1
  /\ synthStep = NoStep
  /\ pipeline = NoPipeline
  /\ infras = <<>>
  /\ run = NoRun
  /\ sample = NoSample

\* The statements of the constructor before the loop.
CreatePipeline ==
  /\ pc = "start"
  /\ synthStep' = SynthStep(rev)
  /\ pipeline' = CodePipeline(props.selfMutating, SynthStep(rev))
  /\ pc' = "loop"
  /\ UNCHANGED <<run, sample, rev, props, i, infras>>

\* const infra = new InfraStage(this, stage.name, {buildAccount, ...stage})
NewInfraStage ==
  /\ pc = "loop"
  /\ i <= Len(props.stages)
  /\ infras' = Append(infras,
                 InfraStage(props.stages[i].name,
                            InfraStageProps(props.stages[i]), rev))
  /\ pc' = "addStage"
  /\ UNCHANGED <<run, sample, rev, props, i, synthStep, pipeline>>

\* const webStage = pipeline.addStage(infra, {post: [Web Sync]})
AddStage ==
  /\ pc = "addStage"
  /\ LET infra == CurrentInfra(infras, i)
         dir == OutputDirectory(props, rev)
     IN  /\ synthStep' = AddOutputDirectory(synthStep, dir)
         /\ pipeline' = AddStageTo(pipeline, infra, <<WebSync(infra, dir, rev)>>)
  /\ IF HasTesting(props.stages[i])
     THEN pc' = "testing" /\ i' = i
     ELSE pc' = "loop" /\ i' = i + 1
  /\ UNCHANGED <<run, sample, rev, props, infras>>

\* webStage.addPost(new CodeBuildStep('Functional Testing', {...}))
AddPost ==
  /\ pc = "testing"
  /\ LET infra == CurrentInfra(infras, i)
         dir == OutputDirectory(props, rev)
     IN  /\ synthStep' = AddOutputDirectory(synthStep, dir)
         /\ pipeline' = AddPostTo(pipeline, Len(pipeline.stages),
                          FunctionalTesting(infra, props.stages[i], dir, rev))
  /\ pc' = "loop"
  /\ i' = i + 1
  /\ UNCHANGED <<run, sample, rev, props, infras>>

\* The loop is exhausted and the constructor returns.
Return ==
  /\ pc = "loop"
  /\ i > Len(props.stages)
  /\ pc' = "done"
  /\ UNCHANGED <<run, sample, rev, props, i, synthStep, pipeline, infras>>

Next ==
  \/ CreatePipeline
  \/ NewInfraStage
  \/ AddStage
  \/ AddPost
  \/ Return

Spec == Init /\ [][Next]_vars

-----------------------------------------------------------------------------
(* bin/local.ts: one InfraStage for the developer environment *)

LocalStageId == "BlueprintCdkFrontWeb-Dev"

LocalConfigs ==
  {[buildAccount |-> b, domainName |-> d, hostedZoneId |-> h, certificateArn |-> c] :
     b \in {Undefined, "111111111111"},
     d \in OptionalString("example.com"),
     h \in OptionalString("Z123"),
     c \in OptionalString("arn:cert")}

InitLocal ==
  /\ rev \in Revs
  /\ props \in LocalConfigs
  /\ pc = "start"
  /\ i = 1
  /\ synthStep = NoStep
  /\ pipeline = NoPipeline
  /\ infras = <<>>
  /\ run = NoRun
  /\ sample = NoSample

\* new InfraStage(app, `${PROJECT_NAME}-Dev`, {env, ...config})
NewLocalInfraStage ==
  /\ pc = "start"
  /\ infras' = <<InfraStage(LocalStageId, props, rev)>>
  /\ pc' = IF infras'[1].webStack.completed THEN "done" ELSE "threw"
  /\ UNCHANGED <<run, sample, rev, props, i, synthStep, pipeline>>

NextLocal == NewLocalInfraStage

SpecLocal == InitLocal /\ [][NextLocal]_vars

-----------------------------------------------------------------------------
(* Helpers of the properties *)

IsFunctionalTesting(step) == step.id = "Functional Testing"
IsWebSync(step) == step.id = "Web Sync"

\* The resources named by the statements of a step.
RECURSIVE StatementResources(_)
StatementResources(stmts) ==
  IF stmts = <<>> THEN {}
  ELSE SeqToSet(Head(stmts).resources) \cup StatementResources(Tail(stmts))

\* The IAM actions named by the statements of a step.
RECURSIVE StatementActions(_)
StatementActions(stmts) ==
  IF stmts = <<>> THEN {}
  ELSE SeqToSet(Head(stmts).actions) \cup StatementActions(Tail(stmts))

\* The k-th stage has been wired completely: the loop has moved past it.
Wired(k) == k < i

LocalBuilt == pc # "start" /\ Len(infras) = 1

-----------------------------------------------------------------------------
(* C1 *)

\* C1: for every combination of present/absent certificateArn, hostedZoneId
\* and domainName given to the WebStack constructor the selection is
\* "imported" when certificateArn and domainName are both present (and then
\* neither a hosted zone nor a zone-validated certificate is created, also
\* when hostedZoneId is present), "validated-from-zone" when hostedZoneId
\* and domainName are present and certificateArn is absent, and "none" in
\* every other combination.
C1_CertificateSelection ==
  LocalBuilt =>
    LET ws == infras[1].webStack
        sel == CertificateSelection(ws)
        c == Truthy(props.certificateArn)
        h == Truthy(props.hostedZoneId)
        d == Truthy(props.domainName)
    IN  /\ (c /\ d) =>
              /\ sel = "imported"
              /\ ws.certificate = props.certificateArn
              /\ {"Certificate", "HostedZone"} \cap SeqToSet(ws.constructs) = {}
        /\ (~c /\ h /\ d) =>
              /\ sel = "validated-from-zone"
              /\ ws.hostedZone = props.hostedZoneId
              /\ "CertificateImported" \notin SeqToSet(ws.constructs)
        /\ (~d \/ (~c /\ ~h)) =>
              /\ sel = "none"
              /\ ws.certificate = Undefined
              /\ {"Certificate", "HostedZone", "CertificateImported"}
                   \cap SeqToSet(ws.constructs) = {}

\* All three inputs present: the imported certificate wins.
C1_Witness ==
  /\ LocalBuilt
  /\ Truthy(props.certificateArn) /\ Truthy(props.hostedZoneId)
  /\ Truthy(props.domainName)
  /\ CertificateSelection(infras[1].webStack) = "imported"

-----------------------------------------------------------------------------
(* C2 *)

\* C2: a WebStack built with neither certificateArn nor hostedZoneId, with
\* or without domainName, gives its distribution no certificate and an empty
\* list of custom domain names.
C2_NoCertificateNoDomain ==
  (LocalBuilt /\ ~Truthy(props.certificateArn) /\ ~Truthy(props.hostedZoneId)) =>
    LET ws == infras[1].webStack
    IN  /\ ws.certificate = Undefined
        /\ ws.domainNames = <<>>
        /\ "WebDistribution" \in SeqToSet(ws.constructs)
        /\ "APIAliasRecord" \notin SeqToSet(ws.constructs)

\* domainName alone was supplied and the distribution has no custom domain.
C2_Witness ==
  /\ LocalBuilt
  /\ props.certificateArn = Undefined /\ props.hostedZoneId = Undefined
  /\ Truthy(props.domainName)
  /\ infras[1].webStack.domainNames = <<>>

-----------------------------------------------------------------------------
(* C3 *)

\* domainName alone, certificateArn without domainName, hostedZoneId without
\* domainName.
PartialCertificateInput(p) ==
  \/ Truthy(p.domainName) /\ ~Truthy(p.certificateArn) /\ ~Truthy(p.hostedZoneId)
  \/ Truthy(p.certificateArn) /\ ~Truthy(p.domainName)
  \/ Truthy(p.hostedZoneId) /\ ~Truthy(p.domainName)

\* C3: for partial certificate input the WebStack constructor raises no
\* error: it runs to its end, the buckets, the distribution, the outputs and
\* the dashboard are created, and the selection is "none".
C3_PartialInputNoError ==
  (pc # "start" /\ PartialCertificateInput(props)) =>
    /\ pc = "done"
    /\ Len(infras) = 1
    /\ LET ws == infras[1].webStack
       IN  /\ ws.completed
           /\ {"WebAccessLogsBucket", "WebBucket", "WebDistribution", "WebDashboard"}
                \subseteq SeqToSet(ws.constructs)
           /\ ws.distributionIdOutput.defined
           /\ ws.distributionUrlOutput.defined
           /\ ws.bucketNameOutput.defined
           /\ ws.bucketArnOutput.defined
           /\ CertificateSelection(ws) = "none"

\* certificateArn without domainName went through the constructor.
C3_Witness ==
  /\ pc = "done"
  /\ Truthy(props.certificateArn) /\ props.domainName = Undefined
  /\ infras[1].webStack.completed

-----------------------------------------------------------------------------
(* C4 *)

\* C4: for a stage list of length N exactly N InfraStage instances are
\* created and added to the pipeline, one per entry and in the order of the
\* list: the k-th instance and the k-th stage deployment are built from the
\* k-th entry and carry its name.
C4_OneStagePerEntryInOrder ==
  /\ Len(infras) <= Len(props.stages)
  /\ Len(pipeline.stages) <= Len(infras)
  /\ \A k \in 1..Len(infras) :
       /\ infras[k].stageName = props.stages[k].name
       /\ infras[k].webStack.stackName = StackName(props.stages[k].name, rev)
  /\ \A k \in 1..Len(pipeline.stages) :
       /\ pipeline.stages[k].stageName = props.stages[k].name
       /\ pipeline.stages[k].stack = infras[k].webStack.stackName
  /\ pc = "done" =>
       /\ Len(infras) = Len(props.stages)
       /\ Len(pipeline.stages) = Len(props.stages)

\* A list of two stages has been wired to its end.
C4_Witness ==
  /\ pc = "done"
  /\ Len(props.stages) = 2
  /\ Len(pipeline.stages) = 2

-----------------------------------------------------------------------------
(* C5 *)

\* C5: a stage whose testing flag is false, with or without testingRoleArn,
\* has no "Functional Testing" action in its post-deploy sequence and no
\* sts:assumeRole statement.
C5_NoTestingNoAction ==
  \A k \in 1..Len(pipeline.stages) :
    ~props.stages[k].testing =>
      \A n \in 1..Len(pipeline.stages[k].post) :
        LET step == pipeline.stages[k].post[n]
        IN  /\ ~IsFunctionalTesting(step)
            /\ "sts:assumeRole" \notin StatementActions(step.rolePolicyStatements)

\* A stage with testing = false and a testingRoleArn has been wired.
C5_Witness ==
  /\ pc = "done"
  /\ \E k \in 1..Len(pipeline.stages) :
       /\ ~props.stages[k].testing
       /\ Truthy(props.stages[k].testingRoleArn)
       /\ Len(pipeline.stages[k].post) = 1

-----------------------------------------------------------------------------
(* C6 *)

\* The "Functional Testing" actions of the k-th stage deployment.
TestingActions(k) == SelectSeq(pipeline.stages[k].post, IsFunctionalTesting)

\* C6: a wired stage with testing = true and testingRoleArn absent or empty
\* has exactly one "Functional Testing" action, and the permission grant
\* list of that action is empty.
C6_TestingWithoutRole ==
  \A k \in 1..Len(pipeline.stages) :
    (Wired(k) /\ props.stages[k].testing /\ ~Truthy(props.stages[k].testingRoleArn)) =>
      /\ Len(TestingActions(k)) = 1
      /\ TestingActions(k)[1].rolePolicyStatements = <<>>

\* A stage with testing = true and an empty testingRoleArn has been wired.
C6_Witness ==
  /\ pc = "done"
  /\ \E k \in 1..Len(pipeline.stages) :
       /\ props.stages[k].testing
       /\ props.stages[k].testingRoleArn = ""
       /\ Len(TestingActions(k)) = 1

-----------------------------------------------------------------------------
(* C7 *)

\* C7: a wired stage with testing = true and testingRoleArn = r has a
\* "Functional Testing" action with exactly one statement, which allows
\* sts:assumeRole on r and on nothing else, in particular on no different
\* role of another stage.
C7_TestingRoleGrant ==
  \A k \in 1..Len(pipeline.stages) :
    (Wired(k) /\ props.stages[k].testing /\ Truthy(props.stages[k].testingRoleArn)) =>
      /\ Len(TestingActions(k)) = 1
      /\ LET stmts == TestingActions(k)[1].rolePolicyStatements
         IN  /\ Len(stmts) = 1
             /\ stmts[1].actions = <<"sts:assumeRole">>
             /\ stmts[1].resources = <<props.stages[k].testingRoleArn>>
             /\ \A j \in 1..Len(props.stages) :
                  props.stages[j].testingRoleArn # props.stages[k].testingRoleArn
                    => props.stages[j].testingRoleArn \notin StatementResources(stmts)

\* Two testing stages with different roles have been wired.
C7_Witness ==
  /\ pc = "done"
  /\ \E k, j \in 1..Len(pipeline.stages) :
       /\ props.stages[k].testing /\ props.stages[j].testing
       /\ props.stages[k].testingRoleArn = "role-x"
       /\ props.stages[j].testingRoleArn = "role-y"
       /\ "role-x" \in StatementResources(TestingActions(k)[1].rolePolicyStatements)

-----------------------------------------------------------------------------
(* C8 *)

\* The hosting outputs consumed by the post-deploy actions of the k-th stage
\* deployment are those of the k-th InfraStage.
ConsumesOwnOutputs(k) ==
  \A n \in 1..Len(pipeline.stages[k].post) :
    LET step == pipeline.stages[k].post[n]
    IN  /\ \A e \in 1..Len(step.envFromCfnOutputs) :
             LET env == step.envFromCfnOutputs[e]
             IN  /\ env.name = "WEB_BUCKET_NAME" =>
                      env.output = infras[k].bucketNameOutput
                 /\ env.name = "DISTRIBUTION_ID" =>
                      env.output = infras[k].distributionIdOutput
                 /\ env.name \in {"WEB_BUCKET_NAME", "DISTRIBUTION_ID"} =>
                      env.output.stack = infras[k].webStack.stackName
        /\ IsWebSync(step) =>
             /\ Len(step.envFromCfnOutputs) = 2
             /\ step.rolePolicyStatements[1].resources =
                  <<infras[k].bucketArnOutput.value,
                    infras[k].bucketArnOutput.value \o "/*">>
             /\ infras[k].bucketArnOutput.stack = infras[k].webStack.stackName

\* A step that adds a post-deploy action to the pipeline works on a stage
\* whose InfraStage existed before the step.
HostingBeforeActions ==
  pipeline'.stages # pipeline.stages =>
    /\ Len(pipeline'.stages) <= Len(infras)
    /\ infras' = infras

\* C8: within the processing of a stage the InfraStage is instantiated before
\* any post-deploy action of the stage is constructed, and the bucket name,
\* distribution id and bucket ARN consumed by the post-deploy actions of a
\* stage are outputs of the InfraStage of that same stage.
C8_HostingFirstOwnOutputs ==
  /\ [][HostingBeforeActions]_vars
  /\ [](\A k \in 1..Len(pipeline.stages) : ConsumesOwnOutputs(k))

\* The second of two stages carries its Web Sync action.
C8_Witness ==
  /\ Len(pipeline.stages) = 2
  /\ IsWebSync(pipeline.stages[2].post[1])
  /\ pipeline.stages[2].post[1].envFromCfnOutputs[1].output.stack
       = StackName(props.stages[2].name, rev)

-----------------------------------------------------------------------------
(* C9 *)

\* The bucket of the k-th stage and the objects under it.
OwnBucketScope(k) ==
  {infras[k].bucketArnOutput.value, infras[k].bucketArnOutput.value \o "/*"}

\* C9 as claimed: every statement of the post-deploy actions of a stage is
\* scoped to the bucket ARN of that stage, the bucket or the objects under
\* it, and to nothing wider.
C9_AllGrantsBucketScoped ==
  \A k \in 1..Len(pipeline.stages) :
    \A n \in 1..Len(pipeline.stages[k].post) :
      StatementResources(pipeline.stages[k].post[n].rolePolicyStatements)
        \subseteq OwnBucketScope(k)

\* C9 as amended: the S3 statement of the Web Sync action of a stage is
\* scoped to the bucket ARN of that stage and the objects under it; no
\* statement of a stage names the bucket ARN of another stage; the only
\* statements that are not scoped to the bucket are cloudformation:ListExports
\* on "*" in Web Sync and sts:assumeRole on the testingRoleArn of the same
\* stage in Functional Testing.
C9_S3GrantsOwnBucket ==
  \A k \in 1..Len(pipeline.stages) :
    \A n \in 1..Len(pipeline.stages[k].post) :
      LET step == pipeline.stages[k].post[n]
          stmts == step.rolePolicyStatements
      IN  /\ \A j \in 1..Len(infras) :
               j # k => OwnBucketScope(j) \cap StatementResources(stmts) = {}
          /\ \A m \in 1..Len(stmts) :
               \/ /\ SeqToSet(stmts[m].resources) = OwnBucketScope(k)
                  /\ IsWebSync(step)
                  /\ SeqToSet(stmts[m].actions) =
                       {"s3:List*", "s3:Abort*", "s3:GetObject*", "s3:PutObject*",
                        "s3:DeleteObject*"}
               \/ /\ stmts[m].resources = <<"*">>
                  /\ IsWebSync(step)
                  /\ stmts[m].actions = <<"cloudformation:ListExports">>
               \/ /\ stmts[m].resources = <<props.stages[k].testingRoleArn>>
                  /\ IsFunctionalTesting(step)
                  /\ stmts[m].actions = <<"sts:assumeRole">>
          /\ IsWebSync(step) =>
               \E m \in 1..Len(stmts) : SeqToSet(stmts[m].resources) = OwnBucketScope(k)

\* Two stages whose names differ only in case carry their own S3 statements.
C9_Witness ==
  /\ pc = "done"
  /\ Len(pipeline.stages) = 2
  /\ {props.stages[1].name, props.stages[2].name} = {"Testing", "testing"}
  /\ OwnBucketScope(1) # OwnBucketScope(2)
  /\ SeqToSet(pipeline.stages[2].post[1].rolePolicyStatements[1].resources)
       = OwnBucketScope(2)

-----------------------------------------------------------------------------
(* C10 *)

\* C10 as claimed: once the InfraStage of a stage is instantiated its bucket
\* name, bucket ARN, distribution id and website URL outputs are defined, and
\* every output handed to a post-deploy action of the stage, the WEB_URL of
\* the Functional Testing action included, is defined.
C10_AllOutputsDefined ==
  /\ \A k \in 1..Len(infras) :
       /\ infras[k].bucketNameOutput.defined
       /\ infras[k].bucketArnOutput.defined
       /\ infras[k].distributionIdOutput.defined
       /\ infras[k].webUrlOutput.defined
  /\ \A k \in 1..Len(pipeline.stages) :
       \A n \in 1..Len(pipeline.stages[k].post) :
         \A e \in 1..Len(pipeline.stages[k].post[n].envFromCfnOutputs) :
           pipeline.stages[k].post[n].envFromCfnOutputs[e].output.defined

-----------------------------------------------------------------------------
(* C11 *)

\* C11: with an empty stage list the PipelineStack constructor runs to its
\* end without entering the loop body: no InfraStage is instantiated, the
\* pipeline has no stage deployment and no post-deploy action, and no default
\* stage is added.
C11_EmptyStageList ==
  Len(props.stages) = 0 =>
    /\ pc \in {"start", "loop", "done"}
    /\ infras = <<>>
    /\ pipeline.stages = <<>>
    /\ synthStep.additionalOutputs = {}

\* The constructor has returned for an empty stage list.
C11_Witness ==
  /\ pc = "done"
  /\ props.stages = <<>>
  /\ pipeline.synth = "Synth"
  /\ pipeline.stages = <<>>

-----------------------------------------------------------------------------
(* C12 *)

\* The "Web Sync" actions of the k-th stage deployment.
SyncActions(k) == SelectSeq(pipeline.stages[k].post, IsWebSync)

\* stages = [{name: "Testing", testing: true, testingRoleArn: "role-x"}]
IsTestingScenario ==
  /\ Len(props.stages) = 1
  /\ props.stages[1].name = "Testing"
  /\ props.stages[1].testing
  /\ props.stages[1].testingRoleArn = "role-x"

\* C12: the stage list [{name: "Testing", testing: true, testingRoleArn:
\* "role-x"}] gives exactly one InfraStage, named "Testing", exactly one
\* Web Sync action, whose S3 statement names the bucket ARN of that stage,
\* and exactly one Functional Testing action, granted sts:assumeRole on
\* "role-x".
C12_TestingScenario ==
  (pc = "done" /\ IsTestingScenario) =>
    /\ Len(infras) = 1
    /\ infras[1].stageName = "Testing"
    /\ Len(pipeline.stages) = 1
    /\ pipeline.stages[1].stageName = "Testing"
    /\ Len(pipeline.stages[1].post) = 2
    /\ Len(SyncActions(1)) = 1
    /\ infras[1].bucketArnOutput.defined
    /\ infras[1].bucketArnOutput.value
         \in SeqToSet(SyncActions(1)[1].rolePolicyStatements[1].resources)
    /\ "s3:PutObject*"
         \in SeqToSet(SyncActions(1)[1].rolePolicyStatements[1].actions)
    /\ Len(TestingActions(1)) = 1
    /\ TestingActions(1)[1].rolePolicyStatements =
         <<[resources |-> <<"role-x">>, actions |-> <<"sts:assumeRole">>]>>

\* The scenario has been wired to its end.
C12_Witness ==
  /\ pc = "done"
  /\ IsTestingScenario
  /\ Len(TestingActions(1)) = 1

-----------------------------------------------------------------------------
(* C13 *)

\* The stage deployment that the record of a stage alone determines.
StageWiring(stage) ==
  LET infra == InfraStage(stage.name, InfraStageProps(stage), rev)
      dir == OutputDirectory(props, rev)
  IN  [stageName |-> stage.name,
       stack |-> StackName(stage.name, rev),
       post |-> <<WebSync(infra, dir, rev)>> \o
                (IF stage.testing
                 THEN <<FunctionalTesting(infra, stage, dir, rev)>>
                 ELSE <<>>)]

\* The wiring of every stage the loop has passed is the one its own record
\* determines, whatever stages precede or follow it.
WiringFromOwnRecord ==
  /\ \A k \in 1..Len(infras) :
       infras[k] = InfraStage(props.stages[k].name,
                              InfraStageProps(props.stages[k]), rev)
  /\ \A k \in 1..Len(pipeline.stages) :
       Wired(k) => pipeline.stages[k] = StageWiring(props.stages[k])

\* C13 as claimed: the wiring of a stage depends on its own record and the
\* pipeline-level properties only, and wiring a stage leaves the state of the
\* shared synth step as it was constructed.
C13_NoSharedStateSynthUntouched ==
  /\ WiringFromOwnRecord
  /\ pc # "start" => synthStep = SynthStep(rev)

\* C13 as amended: the wiring of a stage depends on its own record and the
\* pipeline-level properties only; the synth step is shared and is changed
\* by the wiring of the first stage, which adds the output directory to it,
\* and by no later wiring, which finds that directory again.
C13_OwnRecordSynthOutputOnce ==
  /\ WiringFromOwnRecord
  /\ pc # "start" =>
       synthStep = IF pipeline.stages = <<>>
                   THEN SynthStep(rev)
                   ELSE AddOutputDirectory(SynthStep(rev), OutputDirectory(props, rev))

\* Two stages are wired, the second one with a testing action, and the synth
\* step holds the one output directory.
C13_Witness ==
  /\ pc = "done"
  /\ Len(pipeline.stages) = 2
  /\ ~props.stages[1].testing /\ props.stages[2].testing
  /\ Len(pipeline.stages[1].post) = 1
  /\ synthStep.additionalOutputs = {OutputDirectory(props, rev)}

-----------------------------------------------------------------------------
(* C17 *)

\* C17: the alias record of the custom domain is created exactly when the
\* selection is "validated-from-zone"; on the "imported" path no hosted zone
\* is looked up and no alias record is created, also when hostedZoneId is
\* given, and on the "none" path no alias record is created.
C17_AliasRecordIffZoneValidated ==
  LocalBuilt =>
    LET ws == infras[1].webStack
        made == SeqToSet(ws.constructs)
        sel == CertificateSelection(ws)
    IN  /\ ("APIAliasRecord" \in made) <=> (sel = "validated-from-zone")
        /\ sel = "imported" =>
             /\ "HostedZone" \notin made
             /\ ws.hostedZone = Undefined
             /\ "APIAliasRecord" \notin made
        /\ sel = "none" => "APIAliasRecord" \notin made
        /\ sel = "validated-from-zone" => "HostedZone" \in made

\* The imported path was taken although a hostedZoneId was given.
C17_Witness ==
  /\ LocalBuilt
  /\ Truthy(props.hostedZoneId) /\ Truthy(props.certificateArn)
  /\ Truthy(props.domainName)
  /\ CertificateSelection(infras[1].webStack) = "imported"
  /\ "APIAliasRecord" \notin SeqToSet(infras[1].webStack.constructs)

-----------------------------------------------------------------------------
(* The error-rate expression of the dashboard, evaluated on one period *)

\* Largest value of a counter of a period that is explored.
MaxCount == 3

\* Rationals as <<numerator, denominator>>; a denominator of 0 is "no value".
RatAdd(x, y) == <<x[1] * y[2] + y[1] * x[2], x[2] * y[2]>>
RatMul(x, y) == <<x[1] * y[1], x[2] * y[2]>>
RatDiv(x, y) == <<x[1] * y[2], x[2] * y[1]>>
RatLeq(x, y) == x[1] * y[2] <= y[1] * x[2]
RatEq(x, y) == x[1] * y[2] = y[1] * x[2]

Metric(id) == [op |-> "metric", id |-> id]
Const(n) == [op |-> "const", n |-> n]
BinOp(op, l, r) == [op |-> op, l |-> l, r |-> r]

\* Variant: the parentheses of the sum are missing, m4+m5+m6/m7*100.
ErrorRateTree_NoParentheses ==
  BinOp("+", BinOp("+", Metric("m4"), Metric("m5")),
        BinOp("*", BinOp("/", Metric("m6"), Metric("m7")), Const(100)))

\* The expression '(m4+m5+m6)/m7*100' as the evaluator reads it: / and * of
\* equal precedence, from left to right.
ErrorRateTree ==
  BinOp("*",
        BinOp("/",
              BinOp("+", BinOp("+", Metric("m4"), Metric("m5")), Metric("m6")),
              Metric("m7")),
        Const(100))

\* The value of an expression, the metric ids bound by usingMetrics to the
\* counters of the period.
RECURSIVE Eval(_, _, _)
Eval(e, using, counters) ==
  CASE e.op = "metric" -> <<counters[using[e.id]], 1>>
    [] e.op = "const" -> <<e.n, 1>>
    [] e.op = "+" -> RatAdd(Eval(e.l, using, counters), Eval(e.r, using, counters))
    [] e.op = "*" -> RatMul(Eval(e.l, using, counters), Eval(e.r, using, counters))
    [] e.op = "/" -> RatDiv(Eval(e.l, using, counters), Eval(e.r, using, counters))

\* The 5xxErrorByLambdaEdge value of a period.
ErrorRate(counters) ==
  Eval(ErrorRateTree, ErrorRateExpression.usingMetrics, counters)

Counters(a, b, c, d) ==
  [LambdaExecutionError |-> a, LambdaValidationError |-> b,
   LambdaLimitExceededErrors |-> c, Requests |-> d]

InitDashboard ==
  /\ rev \in Revs
  /\ props = Undefined
  /\ pc = "start"
  /\ i = 1
  /\ synthStep = NoStep
  /\ pipeline = NoPipeline
  /\ infras = <<>>
  /\ run = NoRun
  /\ sample \in {[LambdaExecutionError |-> a, LambdaValidationError |-> b,
                  LambdaLimitExceededErrors |-> c, Requests |-> d,
                  evaluated |-> FALSE, value |-> <<0, 1>>] :
                   a \in 0..MaxCount, b \in 0..MaxCount,
                   c \in 0..MaxCount, d \in 0..MaxCount}

\* The metrics evaluator computes the expression on the period.
EvaluateErrorRate ==
  /\ ~sample.evaluated
  /\ sample' = [sample EXCEPT
                  !.evaluated = TRUE,
                  !.value = ErrorRate(Counters(sample.LambdaExecutionError,
                                               sample.LambdaValidationError,
                                               sample.LambdaLimitExceededErrors,
                                               sample.Requests))]
  /\ UNCHANGED <<run, rev, props, pc, i, synthStep, pipeline, infras>>

NextDashboard == EvaluateErrorRate

SpecDashboard == InitDashboard /\ [][NextDashboard]_vars

-----------------------------------------------------------------------------
(* C14 *)

\* C14: the error-rate expression computes (a+b+c)/d*100, a, b and c the
\* LambdaExecutionError, LambdaValidationError and LambdaLimitExceededErrors
\* sums and d the Requests sum; for non-negative a, b, c and d > 0 its value
\* does not decrease when a, b or c grows and does not increase when d grows.
C14_ErrorRateMonotone ==
  (sample.evaluated /\ sample.Requests > 0) =>
    LET a == sample.LambdaExecutionError
        b == sample.LambdaValidationError
        c == sample.LambdaLimitExceededErrors
        d == sample.Requests
    IN  /\ sample.value[2] > 0
        /\ RatEq(sample.value, <<(a + b + c) * 100, d>>)
        /\ \A x \in 0..(MaxCount + 1) :
             /\ x >= a => RatLeq(sample.value, ErrorRate(Counters(x, b, c, d)))
             /\ x >= b => RatLeq(sample.value, ErrorRate(Counters(a, x, c, d)))
             /\ x >= c => RatLeq(sample.value, ErrorRate(Counters(a, b, x, d)))
             /\ x >= d => RatLeq(ErrorRate(Counters(a, b, c, x)), sample.value)

\* A period with errors of all three kinds and several requests was evaluated.
C14_Witness ==
  /\ sample.evaluated
  /\ sample.LambdaExecutionError = 1 /\ sample.LambdaValidationError = 2
  /\ sample.LambdaLimitExceededErrors = 1 /\ sample.Requests = 2
  /\ RatEq(sample.value, <<200, 1>>)

-----------------------------------------------------------------------------
(* The Makefile *)

\* A recipe line that runs a shell command.
Sh(cmd) == [cmd |-> cmd, goal |-> Undefined, ignore |-> FALSE]

\* A recipe line that runs `make goal`.
Mk(goal) == [cmd |-> "make " \o goal, goal |-> goal, ignore |-> FALSE]

\* The targets that have a rule.
MakefileTargets ==
  {"install", "build", "test", "test-ui", "lint", "configure-ui", "web-sync",
   "synth", "deploy-local", "deploy", "pre-commit"}

\* Variant: the lines of pre-commit carry the `-` prefix, errors are ignored.
PreCommitRecipe_IgnoreErrors ==
  <<[cmd |-> "echo \"Running pre-commit\" checks", goal |-> Undefined, ignore |-> TRUE],
    [cmd |-> "make lint", goal |-> "lint", ignore |-> TRUE],
    [cmd |-> "make build", goal |-> "build", ignore |-> TRUE],
    [cmd |-> "make test", goal |-> "test", ignore |-> TRUE],
    [cmd |-> "make test-ui", goal |-> "test-ui", ignore |-> TRUE],
    [cmd |-> "make deploy-local", goal |-> "deploy-local", ignore |-> TRUE]>>

\* The recipe of pre-commit.
PreCommitRecipe ==
  <<Sh("echo \"Running pre-commit\" checks"),
    Mk("lint"), Mk("build"), Mk("test"), Mk("test-ui"), Mk("deploy-local")>>

\* The recipe of a target that has a rule.
Recipe(target) ==
  CASE target = "install" ->
         <<Sh("yarn install --frozen-lockfile"), Sh("yarn bootstrap")>>
    [] target = "build" -> <<Sh("yarn build")>>
    [] target = "test" -> <<Sh("CI=${CI} yarn test")>>
    [] target = "test-ui" -> <<Sh("yarn test-ui")>>
    [] target = "lint" -> <<Sh("yarn lint")>>
    [] target = "configure-ui" ->
         <<Sh("sh packages/website/scripts/configure-ui.sh")>>
    [] target = "web-sync" ->
         <<Sh("aws s3 sync --exclude *static/* packages/website/build/ s3://${BUCKET_NAME}"),
           Sh("aws s3 sync packages/website/build/static s3://${BUCKET_NAME}/static")>>
    [] target = "synth" ->
         <<Sh("cd packages/infra && yarn cdk synth -a bin/infra.js")>>
    [] target = "deploy-local" ->
         <<Mk("install"), Mk("synth"),
           Sh("cd packages/infra && yarn cdk -a cdk.out/assembly-$PROJECT_NAME deploy \\*")>>
    [] target = "deploy" ->
         <<Mk("install"),
           Sh("cd packages/infra && yarn cdk deploy $PIPELINE_STACK_NAME")>>
    [] target = "pre-commit" -> PreCommitRecipe

\* The words that stand for a goal in the commands of the pipeline steps.
GoalWords ==
  MakefileTargets \cup
    {"build-website", "generate-config", "sync-website",
     "invalidate-distribution", "test-functional"}

\* Does a command of a pipeline step run make on goal g?
RunsMake(cmd, g) == cmd = "make " \o g \/ cmd = "CI=true make " \o g

\* A command of a pipeline step as a line to run.
CommandLine(cmd) ==
  IF \E g \in GoalWords : RunsMake(cmd, g)
  THEN [cmd |-> cmd, goal |-> CHOOSE g \in GoalWords : RunsMake(cmd, g),
        ignore |-> FALSE]
  ELSE Sh(cmd)

CommandLines(cmds) == [n \in 1..Len(cmds) |-> CommandLine(cmds[n])]

-----------------------------------------------------------------------------
(* Running recipes: make, and the build runner of a pipeline step *)

Frame(lines) == [lines |-> lines, at |-> 1]
Top(stack) == stack[Len(stack)]
CurrentLine(stack) == Top(stack).lines[Top(stack).at]
Pop(stack) == SubSeq(stack, 1, Len(stack) - 1)
Advance(stack) == [stack EXCEPT ![Len(stack)].at = @ + 1]

\* A recipe whose last line has succeeded returns to the line that ran it.
RECURSIVE Settle(_)
Settle(stack) ==
  IF stack = <<>> THEN <<>>
  ELSE IF Top(stack).at > Len(Top(stack).lines)
       THEN IF Len(stack) = 1 THEN <<>> ELSE Settle(Advance(Pop(stack)))
       ELSE stack

\* `make goal` enters the recipe of the goal, down to a shell command or to a
\* goal without a rule.
RECURSIVE Descend(_)
Descend(stack) ==
  IF CurrentLine(stack).goal \in MakefileTargets
  THEN Descend(Append(stack, Frame(Recipe(CurrentLine(stack).goal))))
  ELSE stack

\* A line has exited nonzero: the recipe stops and the line that ran it fails
\* in turn, unless the line's errors are ignored.
RECURSIVE Unwind(_)
Unwind(stack) ==
  IF CurrentLine(stack).ignore
  THEN [failed |-> FALSE, stack |-> Settle(Advance(stack))]
  ELSE IF Len(stack) = 1
       THEN [failed |-> TRUE, stack |-> <<>>]
       ELSE Unwind(Pop(stack))

\* The exit codes of a line: make exits 2 on a goal without a rule.
ExitCodes(line) == IF line.goal # Undefined THEN {2} ELSE {0, 1}

\* The phase a stack is in: the goal or command of the outermost line.
Phase(stack) ==
  IF stack[1].lines[stack[1].at].goal # Undefined
  THEN stack[1].lines[stack[1].at].goal
  ELSE stack[1].lines[stack[1].at].cmd

Event(kind, phase, cmd, exit, stage) ==
  [kind |-> kind, phase |-> phase, cmd |-> cmd, exit |-> exit, stage |-> stage]

\* The exit codes of a post-deploy step run as a whole.
StepExitCodes(step) ==
  IF \A n \in 1..Len(step.commands) :
       CommandLine(step.commands[n]).goal \in MakefileTargets \cup {Undefined}
  THEN {0, 1} ELSE {2}

\* The post-deploy steps that step n of a stage is declared to depend on: the
\* steps are given as a plain array and through addPost, without
\* addStepDependency, and take their input from the Synth step.
StepDependencies(post, n) == {}

\* Stage lists of the runs: no hosting inputs, no testing role.
BuildStageLists ==
  {s \in StageLists :
     \A k \in 1..Len(s) :
       /\ s[k].testingRoleArn = Undefined
       /\ s[k].domainName = Undefined}

InitBuild ==
  /\ rev \in Revs
  /\ props \in {[selfMutating |-> TRUE, webOutputDir |-> "packages/website/build",
                 stages |-> s] : s \in BuildStageLists}
  /\ pc = "start"
  /\ i = 1
  /\ synthStep = NoStep
  /\ pipeline = NoPipeline
  /\ infras = <<>>
  /\ run = NoRun
  /\ sample = NoSample

\* make pre-commit
MakePreCommit ==
  /\ pc = "start"
  /\ run.status = "idle"
  /\ run' = [run EXCEPT !.entry = "pre-commit", !.status = "running",
                        !.stack = <<Frame(Recipe("pre-commit"))>>]
  /\ pc' = "make"
  /\ UNCHANGED <<sample, rev, props, i, synthStep, pipeline, infras>>

\* The deployed pipeline starts with the Synth step.
StartPipeline ==
  /\ pc = "done"
  /\ run.status = "idle"
  /\ run' = [run EXCEPT
               !.entry = "pipeline", !.status = "running", !.stage = 1,
               !.stack = <<Frame(CommandLines(synthStep.installCommands
                                                \o synthStep.commands))>>]
  /\ UNCHANGED <<sample, rev, props, pc, i, synthStep, pipeline, infras>>

\* The next shell command of the running recipe or step is executed.
RunCommand ==
  /\ run.status = "running"
  /\ run.stack # <<>>
  /\ LET st == Descend(run.stack)
         line == CurrentLine(st)
     IN  \E exit \in ExitCodes(line) :
           LET res == IF exit = 0
                      THEN [failed |-> FALSE, stack |-> Settle(Advance(st))]
                      ELSE Unwind(st)
               over == res.stack = <<>> /\
                         (run.entry = "pre-commit" \/ pipeline.stages = <<>>)
           IN  run' = [run EXCEPT
                         !.log = Append(@, Event("command", Phase(st), line.cmd,
                                                 exit, 0)),
                         !.stack = res.stack,
                         !.status = IF res.failed THEN "failed"
                                    ELSE IF over THEN "succeeded" ELSE "running"]
  /\ UNCHANGED <<sample, rev, props, pc, i, synthStep, pipeline, infras>>

\* The stacks of the next stage are deployed.
DeployStage ==
  /\ run.entry = "pipeline"
  /\ run.status = "running"
  /\ run.stack = <<>>
  /\ ~run.deployed
  /\ run.stage <= Len(pipeline.stages)
  /\ \E exit \in {0, 1} :
       run' = [run EXCEPT
                 !.log = Append(@, Event("deploy", pipeline.stages[run.stage].stageName,
                                         pipeline.stages[run.stage].stack, exit,
                                         run.stage)),
                 !.deployed = (exit = 0),
                 !.ran = {},
                 !.postFailed = FALSE,
                 !.status = IF exit = 0 THEN "running" ELSE "failed"]
  /\ UNCHANGED <<sample, rev, props, pc, i, synthStep, pipeline, infras>>

\* A post-deploy step of the deployed stage is run; the steps none of whose
\* declared dependencies is outstanding are run in any order.
RunPost ==
  /\ run.entry = "pipeline"
  /\ run.status = "running"
  /\ run.deployed
  /\ LET post == pipeline.stages[run.stage].post
     IN  \E n \in (1..Len(post)) \ run.ran :
           /\ StepDependencies(post, n) \subseteq run.ran
           /\ \E exit \in StepExitCodes(post[n]) :
                LET ran == run.ran \cup {n}
                    bad == run.postFailed \/ exit # 0
                    all == ran = 1..Len(post)
                IN  run' = [run EXCEPT
                              !.log = Append(@, Event("post", post[n].id, post[n].id,
                                                      exit, run.stage)),
                              !.ran = ran,
                              !.postFailed = bad,
                              !.deployed = ~(all /\ ~bad),
                              !.stage = IF all /\ ~bad THEN @ + 1 ELSE @,
                              !.status =
                                IF all /\ bad THEN "failed"
                                ELSE IF all /\ run.stage = Len(pipeline.stages)
                                     THEN "succeeded" ELSE "running"]
  /\ UNCHANGED <<sample, rev, props, pc, i, synthStep, pipeline, infras>>

NextBuild ==
  \/ CreatePipeline
  \/ NewInfraStage
  \/ AddStage
  \/ AddPost
  \/ Return
  \/ MakePreCommit
  \/ StartPipeline
  \/ RunCommand
  \/ DeployStage
  \/ RunPost

SpecBuild == InitBuild /\ [][NextBuild]_vars

-----------------------------------------------------------------------------
(* C16 *)

\* The commands of the pipeline steps built so far.
StepCommands ==
  LET posts == UNION {SeqToSet(pipeline.stages[k].post) :
                        k \in 1..Len(pipeline.stages)}
  IN  SeqToSet(synthStep.installCommands) \cup SeqToSet(synthStep.commands)
        \cup UNION {SeqToSet(step.commands) : step \in posts}

\* The goals make is run on by the pipeline steps built so far.
InvokedGoals == {g \in GoalWords : \E cmd \in StepCommands : RunsMake(cmd, g)}

\* C16: every make target invoked by a command of a pipeline step (Synth, Web
\* Sync, Functional Testing) has a rule in the Makefile, and no step of a
\* pipeline run exits with make's "no rule to make target" status.
C16_EveryInvokedTargetDefined ==
  /\ InvokedGoals \subseteq MakefileTargets
  /\ run.entry = "pipeline" =>
       \A p \in 1..Len(run.log) : run.log[p].exit # 2

-----------------------------------------------------------------------------
(* C15 *)

\* The place of a phase in the order of the Synth step: install, then lint and
\* build, unit tests, synth.
SynthRank(phase) ==
  CASE phase = "install" -> 1
    [] phase \in {"lint", "build", "build-website"} -> 2
    [] phase = "test" -> 3
    [] phase = "synth" -> 4
    [] OTHER -> 0

\* The place of a phase in the order of pre-commit.
PreCommitRank(phase) ==
  CASE phase = "lint" -> 1
    [] phase = "build" -> 2
    [] phase = "test" -> 3
    [] phase = "test-ui" -> 4
    [] phase = "deploy-local" -> 5
    [] OTHER -> 0

PhaseRank(phase) ==
  IF run.entry = "pipeline" THEN SynthRank(phase) ELSE PreCommitRank(phase)

\* The phases of the running entry that come before a phase.
EarlierPhases(phase) ==
  IF run.entry = "pipeline"
  THEN {CommandLine(c).goal : c \in StepCommands} \cap
         {g \in GoalWords : SynthRank(g) > 0 /\ SynthRank(g) < SynthRank(phase)}
  ELSE {g \in MakefileTargets :
          PreCommitRank(g) > 0 /\ PreCommitRank(g) < PreCommitRank(phase)}

\* C15: the build phases run in a fixed order and a failing phase stops
\* everything after it. In the Synth step of the pipeline and in make
\* pre-commit, a command that exits nonzero is the last thing that runs; the
\* phases run in their order, a phase starting only after every earlier phase
\* has run with exit zero; and a stage deployment or post-deploy step runs only
\* after every command of the Synth step has exited zero.
C15_PhasesInOrderStopOnFailure ==
  LET log == run.log
      cmds == {p \in 1..Len(log) : log[p].kind = "command"}
  IN  /\ \A p \in cmds :
           log[p].exit # 0 => p = Len(log) /\ run.status = "failed"
      /\ \A p, q \in cmds :
           p < q => PhaseRank(log[p].phase) <= PhaseRank(log[q].phase)
      /\ \A q \in cmds :
           \A g \in EarlierPhases(log[q].phase) :
             \E p \in cmds : p < q /\ log[p].phase = g /\ log[p].exit = 0
      /\ \A q \in 1..Len(log) :
           log[q].kind \in {"deploy", "post"} =>
             /\ \A p \in cmds : p < q /\ log[p].exit = 0
             /\ \A g \in {"install", "lint", "build", "test", "synth"} :
                  \E p \in cmds : log[p].phase = g

\* A unit test failure in make pre-commit after lint and build have passed:
\* nothing has run after it.
C15_Witness ==
  /\ run.entry = "pre-commit"
  /\ run.status = "failed"
  /\ Len(run.log) = 4
  /\ run.log[2].phase = "lint"
  /\ run.log[3].phase = "build"
  /\ run.log[4].phase = "test"
  /\ run.log[4].exit = 1

-----------------------------------------------------------------------------
(* C18 *)

\* The post-deploy events of stage k in a log, in the order they ran.
PostEvents(k) ==
  SelectSeq(run.log, LAMBDA e : e.kind = "post" /\ e.stage = k)

\* C18: in the post-deploy sequence of every stage 'Web Sync' is present
\* exactly once and first, 'Functional Testing' comes after it when present,
\* the sequence has length 1 without testing and 2 with testing, and a run
\* never starts the tests of a stage before its content sync.
C18_WebSyncFirstThenTests ==
  /\ \A k \in 1..Len(pipeline.stages) :
       Wired(k) =>
         LET post == pipeline.stages[k].post
         IN  /\ IsWebSync(post[1])
             /\ Cardinality({n \in 1..Len(post) : IsWebSync(post[n])}) = 1
             /\ Len(post) = IF props.stages[k].testing THEN 2 ELSE 1
             /\ props.stages[k].testing => IsFunctionalTesting(post[2])
  /\ \A k \in 1..Len(pipeline.stages) :
       LET ev == PostEvents(k)
       IN  \A q \in 1..Len(ev) :
             ev[q].phase = "Functional Testing" =>
               \E p \in 1..(q - 1) : ev[p].phase = "Web Sync"

====
